---- MODULE Spec2Model ----
(***************************************************************************)
(* Model of the pyramid_saml2 Identity Provider core: the views            *)
(* (login_begin, login_process, logout, metadata), the handler resolution  *)
(* loop, the exception views, and the IdentityProvider context methods.    *)
(*                                                                         *)
(* Python values are modelled as strings; None is the string None below.   *)
(* Dicts (request.params, request.session, settings['SAML2_IDP']) are      *)
(* functions whose DOMAIN is the set of keys present.                      *)
(***************************************************************************)
EXTENDS Integers, Sequences, FiniteSets, TLC

VARIABLES settings, session, result, ret, begun

vars == <<settings, session, result, ret, begun>>

(***************************************************************************)
(* Bounds of the model.                                                    *)
(***************************************************************************)
\* longest SAML2_SERVICE_PROVIDERS list that is enumerated
MaxHandlers == 3

(***************************************************************************)
(* Python values.                                                          *)
(***************************************************************************)
None == "<None>"

\* dict.get(key, default)
Get(d, k, default) == IF k \in DOMAIN d THEN d[k] ELSE default

\* d[key] = value
SetItem(d, k, v) == [x \in (DOMAIN d) \cup {k} |-> IF x = k THEN v ELSE d[x]]

\* del d[key]
DelItem(d, k) == [x \in (DOMAIN d) \ {k} |-> d[x]]

\* truth value of an Optional[str]: None and '' are falsy
Truthy(v) == v # None /\ v # ""

EmptyDict == [x \in {} |-> None]

(***************************************************************************)
(* Exceptions.  BaseOf gives the direct base class of each exception class  *)
(* that can occur; IsInstance is Python's isinstance along that chain.      *)
(***************************************************************************)
\* pyramid_saml2.exceptions: the two library exceptions are unrelated
\* siblings, neither is a ValueError
SAML2ExceptionBase(e) ==
    CASE e = "CannotHandleAssertion" -> "Exception"
      [] e = "UserNotAuthorized"     -> "Exception"
      [] OTHER                       -> None

BaseOf(e) ==
    CASE e = "binascii.Error"      -> "ValueError"
      [] e = "ValueError"          -> "Exception"
      [] e = "NotImplementedError" -> "RuntimeError"
      [] e = "RuntimeError"        -> "Exception"
      [] e = "HTTPFound"           -> "Exception"
      [] e = "NameError"           -> "Exception"
      [] e = "Exception"           -> None
      [] OTHER                     -> SAML2ExceptionBase(e)

RECURSIVE IsInstance(_, _)
IsInstance(e, cls) ==
    IF e = None THEN FALSE
    ELSE IF e = cls THEN TRUE
    ELSE IsInstance(BaseOf(e), cls)

\* variant: the except clause names CannotHandleAssertion only
CaughtOnlyCannotHandle(e) == IsInstance(e, "CannotHandleAssertion")

\* variant: the except clause is a bare `except Exception`
CaughtAnyException(e) == IsInstance(e, "Exception")

\* except (CannotHandleAssertion, ValueError): the errors the resolver
\* downgrades to "try the next handler"
Caught(e) ==
    IsInstance(e, "CannotHandleAssertion") \/ IsInstance(e, "ValueError")

(***************************************************************************)
(* Service provider handlers.  The SPHandler variants are supplied by the   *)
(* host application; each class below is one kind of variant, described by  *)
(* what its constructor and its three trial methods do: "ok" or the class   *)
(* of the exception raised.  `entity` is the SAML request the handler       *)
(* recognises as its own ("*" for any); any other request is rejected by    *)
(* parse_authn_request with CannotHandleAssertion.                          *)
(***************************************************************************)
SamlRequests == {"reqA", "reqB"}

RelayStates == {"", "rs1"}

HandlerClasses == {"sp.SPA", "sp.NoNameId", "sp.Forbidden", "sp.MidReject",
                   "sp.LateReject", "sp.BrokenCtor"}

Behaviour(cls) ==
    LET ok == [entity |-> "*", ctor |-> "ok", parse |-> "ok", make |-> "ok",
               ctx |-> "ok"]
    IN CASE cls = "sp.SPA"        -> [ok EXCEPT !.entity = "reqA"]
         [] cls = "sp.NoNameId"   -> [ok EXCEPT !.make = "NotImplementedError"]
         [] cls = "sp.Forbidden"  -> [ok EXCEPT !.make = "UserNotAuthorized"]
         [] cls = "sp.MidReject"  -> [ok EXCEPT !.make = "binascii.Error"]
         [] cls = "sp.LateReject" -> [ok EXCEPT !.ctx = "ValueError"]
         [] cls = "sp.BrokenCtor" -> [ok EXCEPT !.ctor = "ValueError"]

\* one entry of settings['SAML2_SERVICE_PROVIDERS']
Registration(cls) == [CLASS |-> cls, OPTIONS |-> [acs_url |-> cls]]

RECURSIVE SeqsUpTo(_, _)
SeqsUpTo(S, n) ==
    IF n = 0 THEN {<<>>}
    ELSE LET shorter == SeqsUpTo(S, n - 1)
         IN shorter \cup {Append(q, x) : q \in {r \in shorter : Len(r) = n - 1}, x \in S}

ServiceProviderLists == SeqsUpTo({Registration(c) : c \in HandlerClasses}, MaxHandlers)

\* the values the handler methods exchange
NoAuthnRequest == [by |-> 0, raw |-> None]

NoSamlResponse == [by |-> 0, for |-> NoAuthnRequest]

NoContext == [handler |-> 0, acs_url |-> None, relay_state |-> None,
              request |-> NoAuthnRequest, response |-> NoSamlResponse]

\* SPHandler.parse_authn_request(raw)
parse_authn_request(h, raw) ==
    LET b == Behaviour(h.cls)
    IN IF b.entity # "*" /\ b.entity # raw
       THEN [exc |-> "CannotHandleAssertion", value |-> NoAuthnRequest]
       ELSE IF b.parse # "ok"
       THEN [exc |-> b.parse, value |-> NoAuthnRequest]
       ELSE [exc |-> None, value |-> [by |-> h.pos, raw |-> raw]]

\* SPHandler.make_response(authn_request)
make_response(h, req) ==
    LET b == Behaviour(h.cls)
    IN IF b.make # "ok"
       THEN [exc |-> b.make, value |-> NoSamlResponse]
       ELSE [exc |-> None, value |-> [by |-> h.pos, for |-> req]]

\* SPHandler.get_response_context(authn_request, response, relay_state)
get_response_context(h, req, resp, relay_state) ==
    LET b == Behaviour(h.cls)
    IN IF b.ctx # "ok"
       THEN [exc |-> b.ctx, value |-> NoContext]
       ELSE [exc |-> None,
             value |-> [handler |-> h.pos, acs_url |-> h.options.acs_url,
                        relay_state |-> relay_state, request |-> req,
                        response |-> resp]]

\* SPHandler.is_valid_redirect(url): the handler's own registered target
handler_is_valid_redirect(h, url) == url = h.options.acs_url

\* one recorded call on a handler
Call(pos, method, raw, relay, reqBy, respBy) ==
    [pos |-> pos, method |-> method, raw |-> raw, relay |-> relay,
     reqBy |-> reqBy, respBy |-> respBy]

(***************************************************************************)
(* IdentityProvider.get_sp_handlers: a lazy generator over the configured   *)
(* registrations, in configuration order.  Element i stands for the handler *)
(* the generator builds when the loop asks for its i-th value; `ctor` is    *)
(* what building it does ("ok" or the exception raised by cls(self, ...)).  *)
(***************************************************************************)
\* variant: the registrations are walked last to first
get_sp_handlers_reversed(sps) ==
    [i \in 1..Len(sps) |->
        [pos |-> Len(sps) + 1 - i, cls |-> sps[Len(sps) + 1 - i].CLASS,
         options |-> sps[Len(sps) + 1 - i].OPTIONS,
         ctor |-> Behaviour(sps[Len(sps) + 1 - i].CLASS).ctor]]

get_sp_handlers(sps) ==
    [i \in 1..Len(sps) |->
        [pos |-> i, cls |-> sps[i].CLASS, options |-> sps[i].OPTIONS,
         ctor |-> Behaviour(sps[i].CLASS).ctor]]

(***************************************************************************)
(* The body of the try block of login_process for one handler.  `locals`    *)
(* are the function's local variables `request` and `response`, which keep  *)
(* their values from one loop iteration to the next.                        *)
(***************************************************************************)
\* variant: a failure of make_response does not end the trial
Trial_ignores_make(h, saml_request, relay_state, locals) ==
    LET p  == parse_authn_request(h, saml_request)
        c1 == Call(h.pos, "parse_authn_request", saml_request, None, 0, 0)
    IN IF p.exc # None
       THEN [exc |-> p.exc, locals |-> locals, calls |-> <<c1>>,
             context |-> NoContext]
       ELSE
         LET l1 == [locals EXCEPT !.request = p.value]
             m  == make_response(h, l1.request)
             c2 == Call(h.pos, "make_response", l1.request.raw, None,
                        l1.request.by, 0)
             l2 == IF m.exc = None THEN [l1 EXCEPT !.response = m.value]
                   ELSE l1
             g  == get_response_context(h, l2.request, l2.response,
                                        relay_state)
             c3 == Call(h.pos, "get_response_context", l2.request.raw,
                        relay_state, l2.request.by, l2.response.by)
         IN [exc |-> g.exc, locals |-> l2, calls |-> <<c1, c2, c3>>,
             context |-> g.value]

\* variant: the parsed request is not bound to `request`, so make_response
\* is handed whatever `request` held before
Trial_stale_request(h, saml_request, relay_state, locals) ==
    LET p  == parse_authn_request(h, saml_request)
        c1 == Call(h.pos, "parse_authn_request", saml_request, None, 0, 0)
    IN IF p.exc # None
       THEN [exc |-> p.exc, locals |-> locals, calls |-> <<c1>>,
             context |-> NoContext]
       ELSE
         LET l1 == locals
             m  == make_response(h, l1.request)
             c2 == Call(h.pos, "make_response", l1.request.raw, None,
                        l1.request.by, 0)
         IN IF m.exc # None
            THEN [exc |-> m.exc, locals |-> l1, calls |-> <<c1, c2>>,
                  context |-> NoContext]
            ELSE
              LET l2 == [l1 EXCEPT !.response = m.value]
                  g  == get_response_context(h, l2.request, l2.response,
                                             relay_state)
                  c3 == Call(h.pos, "get_response_context", l2.request.raw,
                             relay_state, l2.request.by, l2.response.by)
              IN [exc |-> g.exc, locals |-> l2, calls |-> <<c1, c2, c3>>,
                  context |-> g.value]

Trial(h, saml_request, relay_state, locals) ==
    LET p  == parse_authn_request(h, saml_request)
        c1 == Call(h.pos, "parse_authn_request", saml_request, None, 0, 0)
    IN IF p.exc # None
       THEN [exc |-> p.exc, locals |-> locals, calls |-> <<c1>>,
             context |-> NoContext]
       ELSE
         LET l1 == [locals EXCEPT !.request = p.value]
             m  == make_response(h, l1.request)
             c2 == Call(h.pos, "make_response", l1.request.raw, None,
                        l1.request.by, 0)
         IN IF m.exc # None
            THEN [exc |-> m.exc, locals |-> l1, calls |-> <<c1, c2>>,
                  context |-> NoContext]
            ELSE
              LET l2 == [l1 EXCEPT !.response = m.value]
                  g  == get_response_context(h, l2.request, l2.response,
                                             relay_state)
                  c3 == Call(h.pos, "get_response_context", l2.request.raw,
                             relay_state, l2.request.by, l2.response.by)
              IN [exc |-> g.exc, locals |-> l2, calls |-> <<c1, c2, c3>>,
                  context |-> g.value]

\* the response a view call ends in
Resp(view, outcome, body, exc, status, context, calls) ==
    [view |-> view, outcome |-> outcome, body |-> body, exc |-> exc,
     status |-> status, context |-> context, calls |-> calls]

NoResponse == Resp(None, None, None, None, 0, NoContext, <<>>)

\* variant: the view forgets to set the status code
cannot_handle_assertion_exc_view_unset(exception) == 200

\* cannot_handle_assertion_exc_view: request.response.status_code = 400
cannot_handle_assertion_exc_view(exception) == 400

(***************************************************************************)
(* What an exception leaving a view turns into: the exception views of      *)
(* views.py are selected by their `context` class; an HTTPFound is itself   *)
(* the redirect response; anything else is the host framework's generic     *)
(* server error.                                                            *)
(***************************************************************************)
ExceptionStatus(e) ==
    IF IsInstance(e, "CannotHandleAssertion")
    THEN cannot_handle_assertion_exc_view(e)
    ELSE IF IsInstance(e, "UserNotAuthorized") THEN 200
    ELSE IF IsInstance(e, "HTTPFound") THEN 302
    ELSE 500

Raise(view, e, calls) ==
    Resp(view, "raise", None, e, ExceptionStatus(e), NoContext, calls)

\* variant: the loop has no `return` in its else branch; it goes on after a
\* successful trial and answers with the last context built
RECURSIVE ResolveFrom_no_return(_, _, _, _, _, _)
ResolveFrom_no_return(handlers, i, saml_request, relay_state, locals, calls) ==
    IF i > Len(handlers)
    THEN Raise("login_process", "CannotHandleAssertion", calls)
    ELSE
      LET h  == handlers[i]
          c0 == Call(h.pos, "__init__", None, None, 0, 0)
      IN IF h.ctor # "ok"
         THEN Raise("login_process", h.ctor, Append(calls, c0))
         ELSE
           LET t == Trial(h, saml_request, relay_state, locals)
               done == Append(calls, c0) \o t.calls
               rest == ResolveFrom_no_return(handlers, i + 1, saml_request,
                                             relay_state, t.locals, done)
           IN IF t.exc = None
              THEN IF rest.outcome = "raise"
                      /\ rest.exc = "CannotHandleAssertion"
                   THEN Resp("login_process", "context", None, None, 0,
                             t.context, rest.calls)
                   ELSE rest
              ELSE IF Caught(t.exc)
              THEN rest
              ELSE Raise("login_process", t.exc, done)

\* variant: the handler is built inside the try block, so an error of its
\* constructor is caught like an error of its trial
RECURSIVE ResolveFrom_ctor_in_try(_, _, _, _, _, _)
ResolveFrom_ctor_in_try(handlers, i, saml_request, relay_state, locals, calls) ==
    IF i > Len(handlers)
    THEN Raise("login_process", "CannotHandleAssertion", calls)
    ELSE
      LET h  == handlers[i]
          c0 == Call(h.pos, "__init__", None, None, 0, 0)
      IN IF h.ctor # "ok"
         THEN IF Caught(h.ctor)
              THEN ResolveFrom_ctor_in_try(handlers, i + 1, saml_request,
                                           relay_state, locals,
                                           Append(calls, c0))
              ELSE Raise("login_process", h.ctor, Append(calls, c0))
         ELSE
           LET t == Trial(h, saml_request, relay_state, locals)
               done == Append(calls, c0) \o t.calls
           IN IF t.exc = None
              THEN Resp("login_process", "context", None, None, 0,
                        t.context, done)
              ELSE IF Caught(t.exc)
              THEN ResolveFrom_ctor_in_try(handlers, i + 1, saml_request,
                                           relay_state, t.locals, done)
              ELSE Raise("login_process", t.exc, done)

(***************************************************************************)
(* The for loop of login_process from handler i on.                         *)
(***************************************************************************)
RECURSIVE ResolveFrom(_, _, _, _, _, _)
ResolveFrom(handlers, i, saml_request, relay_state, locals, calls) ==
    IF i > Len(handlers)
    THEN Raise("login_process", "CannotHandleAssertion", calls)
    ELSE
      LET h  == handlers[i]
          c0 == Call(h.pos, "__init__", None, None, 0, 0)
      IN IF h.ctor # "ok"
         THEN Raise("login_process", h.ctor, Append(calls, c0))
         ELSE
           LET t == Trial(h, saml_request, relay_state, locals)
               done == Append(calls, c0) \o t.calls
           IN IF t.exc = None
              THEN Resp("login_process", "context", None, None, 0,
                        t.context, done)
              ELSE IF Caught(t.exc)
              THEN ResolveFrom(handlers, i + 1, saml_request, relay_state,
                               t.locals, done)
              ELSE Raise("login_process", t.exc, done)

(***************************************************************************)
(* The host application's IdentityProvider subclass (examples/idp.py).      *)
(***************************************************************************)
users == {"alex", "jordan"}

is_user_logged_in(sess) ==
    "user" \in DOMAIN sess /\ sess["user"] \in users

\* variant: returns silently whether or not a user is logged in
login_required_silent(sess) == None

\* returns None, or the exception it aborts the request with
login_required(sess) ==
    IF ~is_user_logged_in(sess) THEN "HTTPFound" ELSE None

(***************************************************************************)
(* The views.  Each returns the session it leaves and its response.         *)
(***************************************************************************)
\* variant: RelayState is stored only when the request carries one
login_begin_optional_relay(params, sess) ==
    LET saml_request == Get(params, "SAMLRequest", None)
    IN IF ~Truthy(saml_request)
       THEN [session |-> sess,
             response |-> Resp("login_begin", "string",
                               "SAMLRequest is missing", None, 0, NoContext,
                               <<>>)]
       ELSE [session |->
                IF "RelayState" \in DOMAIN params
                THEN SetItem(SetItem(sess, "SAMLRequest", saml_request),
                             "RelayState", params["RelayState"])
                ELSE SetItem(sess, "SAMLRequest", saml_request),
             response |-> Resp("login_begin", "redirect",
                               "/saml/login/process/", None, 302, NoContext,
                               <<>>)]

\* variant: the RelayState parameter is not read, '' is always stored
login_begin_drops_relay(params, sess) ==
    LET saml_request == Get(params, "SAMLRequest", None)
    IN IF ~Truthy(saml_request)
       THEN [session |-> sess,
             response |-> Resp("login_begin", "string",
                               "SAMLRequest is missing", None, 0, NoContext,
                               <<>>)]
       ELSE [session |->
                SetItem(SetItem(sess, "SAMLRequest", saml_request),
                        "RelayState", ""),
             response |-> Resp("login_begin", "redirect",
                               "/saml/login/process/", None, 302, NoContext,
                               <<>>)]

\* variant: only a missing parameter is refused (`is None`), '' is stored
login_begin_is_none(params, sess) ==
    LET saml_request == Get(params, "SAMLRequest", None)
    IN IF saml_request = None
       THEN [session |-> sess,
             response |-> Resp("login_begin", "string",
                               "SAMLRequest is missing", None, 0, NoContext,
                               <<>>)]
       ELSE [session |->
                SetItem(SetItem(sess, "SAMLRequest", saml_request),
                        "RelayState", Get(params, "RelayState", "")),
             response |-> Resp("login_begin", "redirect",
                               "/saml/login/process/", None, 302, NoContext,
                               <<>>)]

login_begin(params, sess) ==
    LET saml_request == Get(params, "SAMLRequest", None)
    IN IF ~Truthy(saml_request)
       THEN [session |-> sess,
             response |-> Resp("login_begin", "string",
                               "SAMLRequest is missing", None, 0, NoContext,
                               <<>>)]
       ELSE [session |->
                SetItem(SetItem(sess, "SAMLRequest", saml_request),
                        "RelayState", Get(params, "RelayState", "")),
             response |-> Resp("login_begin", "redirect",
                               "/saml/login/process/", None, 302, NoContext,
                               <<>>)]

\* variant: a resolved request is removed from the session
login_process_consumes(stg, sess) ==
    LET gate == login_required(sess)
    IN IF gate # None
       THEN [session |-> sess, response |-> Raise("login_process", gate, <<>>)]
       ELSE IF "SAMLRequest" \notin DOMAIN sess
       THEN [session |-> sess,
             response |-> Resp("login_process", "string",
                               "SAMLRequest is misssing", None, 0, NoContext,
                               <<>>)]
       ELSE IF "RelayState" \notin DOMAIN sess
       THEN [session |-> sess,
             response |-> Resp("login_process", "string",
                               "RelayState is missing", None, 0, NoContext,
                               <<>>)]
       ELSE
         LET r == ResolveFrom(get_sp_handlers(stg.SAML2_SERVICE_PROVIDERS), 1,
                              sess["SAMLRequest"], sess["RelayState"],
                              [request |-> NoAuthnRequest,
                               response |-> NoSamlResponse], <<>>)
         IN [session |-> IF r.outcome = "context"
                         THEN DelItem(DelItem(sess, "SAMLRequest"),
                                      "RelayState")
                         ELSE sess,
             response |-> r]

\* variant: a missing session key is reported like an unresolvable request
login_process_missing_raises(stg, sess) ==
    LET gate == login_required(sess)
    IN IF gate # None
       THEN [session |-> sess, response |-> Raise("login_process", gate, <<>>)]
       ELSE IF "SAMLRequest" \notin DOMAIN sess \/ "RelayState" \notin DOMAIN sess
       THEN [session |-> sess,
             response |-> Raise("login_process", "CannotHandleAssertion",
                                <<>>)]
       ELSE [session |-> sess,
             response |->
                ResolveFrom(get_sp_handlers(stg.SAML2_SERVICE_PROVIDERS), 1,
                            sess["SAMLRequest"], sess["RelayState"],
                            [request |-> NoAuthnRequest,
                             response |-> NoSamlResponse], <<>>)]

login_process(stg, sess) ==
    LET gate == login_required(sess)
    IN IF gate # None
       THEN [session |-> sess, response |-> Raise("login_process", gate, <<>>)]
       ELSE IF "SAMLRequest" \notin DOMAIN sess
       THEN [session |-> sess,
             response |-> Resp("login_process", "string",
                               "SAMLRequest is misssing", None, 0, NoContext,
                               <<>>)]
       ELSE IF "RelayState" \notin DOMAIN sess
       THEN [session |-> sess,
             response |-> Resp("login_process", "string",
                               "RelayState is missing", None, 0, NoContext,
                               <<>>)]
       ELSE [session |-> sess,
             response |->
                ResolveFrom(get_sp_handlers(stg.SAML2_SERVICE_PROVIDERS), 1,
                            sess["SAMLRequest"], sess["RelayState"],
                            [request |-> NoAuthnRequest,
                             response |-> NoSamlResponse], <<>>)]

(***************************************************************************)
(* IdentityProvider.is_valid_redirect: any() over the lazy generator of     *)
(* get_sp_handlers, from handler i on.  It stops at the first handler that  *)
(* accepts the URL; an exception raised while a handler is built leaves it. *)
(***************************************************************************)
RECURSIVE AnyValidFrom(_, _, _, _)
AnyValidFrom(handlers, i, url, calls) ==
    IF i > Len(handlers)
    THEN [exc |-> None, value |-> FALSE, calls |-> calls]
    ELSE
      LET h  == handlers[i]
          c0 == Call(h.pos, "__init__", None, None, 0, 0)
          c1 == Call(h.pos, "is_valid_redirect", url, None, 0, 0)
      IN IF h.ctor # "ok"
         THEN [exc |-> h.ctor, value |-> FALSE, calls |-> Append(calls, c0)]
         ELSE IF handler_is_valid_redirect(h, url)
         THEN [exc |-> None, value |-> TRUE, calls |-> calls \o <<c0, c1>>]
         ELSE AnyValidFrom(handlers, i + 1, url, calls \o <<c0, c1>>)

\* variant: every URL is taken to be a valid redirect target
is_valid_redirect_always(stg, url) ==
    [exc |-> None, value |-> TRUE, calls |-> <<>>]

is_valid_redirect(stg, url) ==
    AnyValidFrom(get_sp_handlers(stg.SAML2_SERVICE_PROVIDERS), 1, url, <<>>)

\* ExampleIdentityProvider.logout: del session['user']
idp_logout(sess) == DelItem(sess, "user")

(***************************************************************************)
(* The for loop of logout over the parameter names from the n-th on, and    *)
(* the return statement after it, which reads the name `context` that is    *)
(* bound nowhere in views.py.                                               *)
(***************************************************************************)
RECURSIVE LogoutFrom(_, _, _, _, _)
LogoutFrom(args, n, params, stg, calls) ==
    IF n > Len(args)
    THEN Raise("logout", "NameError", calls)
    ELSE IF args[n] \notin DOMAIN params
    THEN LogoutFrom(args, n + 1, params, stg, calls)
    ELSE
      LET redirect_url == params[args[n]]
      IN IF ~Truthy(redirect_url)
         THEN LogoutFrom(args, n + 1, params, stg, calls)
         ELSE
           LET v == is_valid_redirect(stg, redirect_url)
           IN IF v.exc # None
              THEN Raise("logout", v.exc, calls \o v.calls)
              ELSE IF v.value
              THEN Resp("logout", "redirect", redirect_url, None, 302,
                        NoContext, calls \o v.calls)
              ELSE LogoutFrom(args, n + 1, params, stg, calls \o v.calls)

logout(params, stg, sess) ==
    LET gate == login_required(sess)
    IN IF gate # None
       THEN [session |-> sess, response |-> Raise("logout", gate, <<>>)]
       ELSE [session |-> idp_logout(sess),
             response |-> LogoutFrom(<<"RelayState", "redirect_to">>, 1,
                                     params, stg, <<>>)]

\* LoginView.post of the example application: session['user'] = user
login_view_post(user, sess) == SetItem(sess, "user", user)

(***************************************************************************)
(* IdentityProvider: configuration and signing policy.                      *)
(***************************************************************************)
Absent == "<absent>"

\* a settings['SAML2_IDP'] dict; a key whose choice is Absent is left out
IdpConfig(certificate, private_key, autosubmit) ==
    LET choice == [certificate |-> certificate, private_key |-> private_key,
                   autosubmit |-> autosubmit]
    IN [k \in {n \in DOMAIN choice : choice[n] # Absent} |-> choice[k]]

IdpConfigs ==
    {IdpConfig(c, k, a) : c \in {Absent, None, "IDP_CERTIFICATE"},
                          k \in {Absent, None, "IDP_PRIVATE_KEY", "OTHER_KEY"},
                          a \in {Absent, "True", "False"}}

\* the configuration of the example application
ExampleIdpConfig == IdpConfig("IDP_CERTIFICATE", "IDP_PRIVATE_KEY", "True")

ExampleServiceProviders == <<Registration("sp.SPA")>>

get_idp_config(stg) == stg.SAML2_IDP

get_idp_certificate(stg) == Get(get_idp_config(stg), "certificate", None)

get_idp_private_key(stg) == Get(get_idp_config(stg), "private_key", None)

\* variant: `or` in place of `and`
should_sign_responses_either(stg) ==
    get_idp_certificate(stg) # None \/ get_idp_private_key(stg) # None

should_sign_responses(stg) ==
    get_idp_certificate(stg) # None /\ get_idp_private_key(stg) # None

\* the value of a call that returns no Signer (Python's None)
NoSigner == [cls |-> None, key |-> None]

\* variant: no signer unless responses are to be signed
get_idp_signer_if_signing(stg) ==
    IF should_sign_responses(stg)
    THEN [cls |-> "RsaSha1Signer", key |-> get_idp_private_key(stg)]
    ELSE NoSigner

get_idp_signer(stg) ==
    LET private_key == get_idp_private_key(stg)
    IN IF private_key # None
       THEN [cls |-> "RsaSha1Signer", key |-> private_key]
       ELSE NoSigner

(***************************************************************************)
(* IdentityProvider: the user's name id.                                    *)
(***************************************************************************)
EmailAddressUrn == "urn:oasis:names:tc:SAML:2.0:nameid-format:emailAddress"

NameIdFormats == {EmailAddressUrn,
                  "urn:oasis:names:tc:SAML:2.0:nameid-format:persistent",
                  "urn:oasis:names:tc:SAML:1.1:nameid-format:emailAddress",
                  ""}

UserObjects == {[username |-> "alex", email |-> "alex@example.com"],
                [username |-> "jordan", email |-> "jordan@example.com"]}

get_user_email(user) == user.email

\* variant: an unsupported format is reported as a ValueError
get_user_nameid_value_error(user, attribute) ==
    IF attribute = EmailAddressUrn
    THEN [exc |-> None, value |-> get_user_email(user)]
    ELSE [exc |-> "ValueError", value |-> None]

get_user_nameid(user, attribute) ==
    IF attribute = EmailAddressUrn
    THEN [exc |-> None, value |-> get_user_email(user)]
    ELSE [exc |-> "NotImplementedError", value |-> None]

(***************************************************************************)
(* IdentityProvider: URLs and the metadata context.                         *)
(***************************************************************************)
\* request.route_url(name), by the patterns configure_saml2_idp registers
route_url(name) ==
    CASE name = "pyramid_saml2_idp_login_begin"   -> "/saml/login/"
      [] name = "pyramid_saml2_idp_login_process" -> "/saml/login/process/"
      [] name = "pyramid_saml2_idp_logout"        -> "/saml/logout/"
      [] name = "pyramid_saml2_idp_metadata"      -> "/saml/metadata.xml"

get_sso_url == route_url("pyramid_saml2_idp_login_begin")

get_slo_url == route_url("pyramid_saml2_idp_logout")

get_metadata_url == route_url("pyramid_saml2_idp_metadata")

get_idp_entity_id == get_metadata_url

\* utils.certificate_to_string: the PEM body of a certificate, and the
\* empty string when there is no certificate
certificate_to_string(certificate) ==
    IF certificate = None THEN "" ELSE "PEM<" \o certificate \o ">"

get_metadata_context(stg) ==
    [entity_id |-> get_idp_entity_id,
     certificate |-> certificate_to_string(get_idp_certificate(stg)),
     slo_url |-> get_slo_url,
     sso_url |-> get_sso_url,
     org |-> None,
     contacts |-> <<>>]

\* variant: the view asks for a logged-in user first
metadata_login_required(stg, sess) ==
    IF login_required(sess) # None
    THEN [session |-> sess,
          response |-> Raise("metadata", login_required(sess), <<>>)]
    ELSE [session |-> sess,
          response |-> Resp("metadata", "context", None, None, 0,
                            get_metadata_context(stg), <<>>)]

\* the metadata view; the returned dict is {"idp": idp, **context}
metadata(stg, sess) ==
    [session |-> sess,
     response |-> Resp("metadata", "context", None, None, 0,
                       get_metadata_context(stg), <<>>)]

\* the outcome of a call of an IdentityProvider method
Ret(method, user, attribute, flag, value, signer, exc) ==
    [method |-> method, user |-> user, attribute |-> attribute,
     flag |-> flag, value |-> value, signer |-> signer, exc |-> exc]

NoRet == Ret(None, None, None, FALSE, None, NoSigner, None)

(***************************************************************************)
(* The state machine of the views: one session, the process-wide settings,  *)
(* and the response of the latest request.                                  *)
(***************************************************************************)
ParamsSet ==
    {[k \in {n \in {"SAMLRequest", "RelayState"} :
                [SAMLRequest |-> sr, RelayState |-> rs][n] # Absent} |->
        [SAMLRequest |-> sr, RelayState |-> rs][k]] :
       sr \in {Absent, ""} \cup SamlRequests, rs \in {Absent, "rs1"}}

SessionUsers == {"alex", "mallory"}

Sessions ==
    {[k \in {n \in {"SAMLRequest", "RelayState", "user"} :
                [SAMLRequest |-> sr, RelayState |-> rs, user |-> u][n] # Absent} |->
        [SAMLRequest |-> sr, RelayState |-> rs, user |-> u][k]] :
       sr \in {Absent} \cup SamlRequests, rs \in {Absent} \cup RelayStates,
       u \in {Absent} \cup SessionUsers}

\* the parameters of a logout request
LogoutParamsSet ==
    {[k \in {n \in {"RelayState", "redirect_to"} :
                [RelayState |-> rs, redirect_to |-> rt][n] # Absent} |->
        [RelayState |-> rs, redirect_to |-> rt][k]] :
       rs \in {Absent, "", "sp.SPA", "evil.example"},
       rt \in {Absent, "sp.MidReject"}}

\* `begun` remembers the (SAMLRequest, RelayState) pair handed in with the
\* latest login_begin request that carried a SAMLRequest
NoPair == [SAMLRequest |-> None, RelayState |-> None]

Init ==
    /\ settings \in {[SAML2_IDP |-> ExampleIdpConfig,
                      SAML2_SERVICE_PROVIDERS |-> sps] :
                        sps \in ServiceProviderLists}
    /\ session \in Sessions
    /\ result = NoResponse
    /\ ret = NoRet
    /\ begun = NoPair

LoginBegin(params) ==
    LET o == login_begin(params, session)
    IN /\ session' = o.session
       /\ result' = o.response
       /\ begun' = IF Truthy(Get(params, "SAMLRequest", None))
                   THEN [SAMLRequest |-> params["SAMLRequest"],
                         RelayState |-> Get(params, "RelayState", "")]
                   ELSE begun
       /\ UNCHANGED <<settings, ret>>

LoginProcess ==
    LET o == login_process(settings, session)
    IN /\ session' = o.session
       /\ result' = o.response
       /\ UNCHANGED <<settings, ret, begun>>

Logout(params) ==
    LET o == logout(params, settings, session)
    IN /\ session' = o.session
       /\ result' = o.response
       /\ UNCHANGED <<settings, ret, begun>>

LoginViewPost(user) ==
    /\ session' = login_view_post(user, session)
    /\ result' = Resp("login_view", "redirect", "next", None, 302, NoContext,
                      <<>>)
    /\ UNCHANGED <<settings, ret, begun>>

Next ==
    \/ \E params \in ParamsSet : LoginBegin(params)
    \/ LoginProcess
    \/ \E user \in SessionUsers : LoginViewPost(user)

Spec == Init /\ [][Next]_vars

\* the logout route, with the host application's login, on any session
NextLogout ==
    \/ \E params \in LogoutParamsSet : Logout(params)
    \/ \E user \in SessionUsers : LoginViewPost(user)

SpecLogout == Init /\ [][NextLogout]_vars

\* the same views on a session that starts empty
InitFresh ==
    /\ settings \in {[SAML2_IDP |-> ExampleIdpConfig,
                      SAML2_SERVICE_PROVIDERS |-> sps] :
                        sps \in ServiceProviderLists}
    /\ session = EmptyDict
    /\ result = NoResponse
    /\ ret = NoRet
    /\ begun = NoPair

SpecFresh == InitFresh /\ [][Next]_vars

(***************************************************************************)
(* The state machine of the IdentityProvider methods: every configuration   *)
(* of the IdP, and calls of the methods on it.                              *)
(***************************************************************************)
InitIdp ==
    /\ settings \in {[SAML2_IDP |-> c,
                      SAML2_SERVICE_PROVIDERS |-> ExampleServiceProviders] :
                        c \in IdpConfigs}
    /\ session = EmptyDict
    /\ result = NoResponse
    /\ ret = NoRet
    /\ begun = NoPair

CallShouldSignResponses ==
    /\ ret' = Ret("should_sign_responses", None, None,
                  should_sign_responses(settings), None, NoSigner, None)
    /\ UNCHANGED <<settings, session, result, begun>>

CallGetIdpSigner ==
    /\ ret' = Ret("get_idp_signer", None, None, FALSE, None,
                  get_idp_signer(settings), None)
    /\ UNCHANGED <<settings, session, result, begun>>

CallGetUserNameid(user, attribute) ==
    LET r == get_user_nameid(user, attribute)
    IN /\ ret' = Ret("get_user_nameid", user.username, attribute, FALSE,
                     r.value, NoSigner, r.exc)
       /\ UNCHANGED <<settings, session, result, begun>>

Metadata ==
    LET o == metadata(settings, session)
    IN /\ session' = o.session
       /\ result' = o.response
       /\ UNCHANGED <<settings, ret, begun>>

NextIdp ==
    \/ Metadata
    \/ CallShouldSignResponses
    \/ CallGetIdpSigner
    \/ \E user \in UserObjects, attribute \in NameIdFormats :
          CallGetUserNameid(user, attribute)

SpecIdp == InitIdp /\ [][NextIdp]_vars

(***************************************************************************)
(* Vocabulary of the properties.  What a registered handler would do with a *)
(* request is read off its class, independently of the resolution loop.     *)
(***************************************************************************)
Registered == settings.SAML2_SERVICE_PROVIDERS

Positions == 1..Len(Registered)

NonFatalKinds == {"CannotHandleAssertion", "ValueError", "binascii.Error"}

Constructs(reg) == Behaviour(reg.CLASS).ctor = "ok"

\* the first error of the three trial steps, None if all three succeed
TrialError(reg, raw) ==
    LET b == Behaviour(reg.CLASS)
        parse == IF b.entity \notin {"*", raw} THEN "CannotHandleAssertion"
                 ELSE b.parse
    IN IF parse # "ok" THEN parse
       ELSE IF b.make # "ok" THEN b.make
       ELSE IF b.ctx # "ok" THEN b.ctx
       ELSE None

Accepts(reg, raw) == Constructs(reg) /\ TrialError(reg, raw) = None

RejectsNonFatally(reg, raw) ==
    Constructs(reg) /\ TrialError(reg, raw) \in NonFatalKinds

FailsFatally(reg, raw) ==
    Constructs(reg) /\ TrialError(reg, raw) \notin NonFatalKinds \cup {None}

\* the latest request was login_process
ProcessRan == result.view = "login_process"

\* ... and it got as far as the resolution loop
Resolving ==
    /\ ProcessRan
    /\ is_user_logged_in(session)
    /\ {"SAMLRequest", "RelayState"} \subseteq DOMAIN session

Captured == session["SAMLRequest"]

\* how often `method` was called on the handler at position pos
CallCount(pos, method) ==
    Cardinality({n \in 1..Len(result.calls) :
                    result.calls[n].pos = pos /\ result.calls[n].method = method})

ContextOf(pos) ==
    /\ result.outcome = "context"
    /\ result.context.handler = pos
    /\ result.context.acs_url = Registered[pos].OPTIONS.acs_url

\* C1: first match wins.  When handlers i < j would both accept the
\* captured request and every handler before i rejects it non-fatally,
\* login_process returns the context of handler i, never that of handler j.
C1_FirstMatchWins ==
    Resolving =>
      \A i, j \in Positions :
        ( /\ i < j
          /\ Accepts(Registered[i], Captured)
          /\ Accepts(Registered[j], Captured)
          /\ \A k \in 1..(i - 1) : RejectsNonFatally(Registered[k], Captured) )
        => ContextOf(i) /\ result.context.handler # j

C1_Witness ==
    /\ Resolving
    /\ \E i, j \in Positions :
         /\ 1 < i /\ i < j
         /\ Accepts(Registered[i], Captured)
         /\ Accepts(Registered[j], Captured)
         /\ \A k \in 1..(i - 1) : RejectsNonFatally(Registered[k], Captured)
         /\ ContextOf(i)

\* C2: no shadowing.  When exactly one handler, at position k, accepts the
\* request and every handler before k fails with CannotHandleAssertion or a
\* value error, login_process returns handler k's context, and every handler
\* before k was constructed and tried exactly once.
C2_NoShadowing ==
    Resolving =>
      \A k \in Positions :
        ( /\ Accepts(Registered[k], Captured)
          /\ \A m \in Positions \ {k} : ~Accepts(Registered[m], Captured)
          /\ \A m \in 1..(k - 1) : RejectsNonFatally(Registered[m], Captured) )
        => /\ ContextOf(k)
           /\ \A m \in 1..(k - 1) :
                /\ CallCount(m, "__init__") = 1
                /\ CallCount(m, "parse_authn_request") = 1
                /\ CallCount(m, "make_response") <= 1
                /\ CallCount(m, "get_response_context") <= 1

C2_Witness ==
    /\ Resolving
    /\ \E k \in Positions :
         /\ k > 1
         /\ Accepts(Registered[k], Captured)
         /\ \A m \in Positions \ {k} : ~Accepts(Registered[m], Captured)
         /\ \A m \in 1..(k - 1) : RejectsNonFatally(Registered[m], Captured)
         /\ \E m \in 1..(k - 1) :
              TrialError(Registered[m], Captured) \in {"ValueError", "binascii.Error"}
         /\ ContextOf(k)

\* C3: exhaustion.  When every registered handler's trial fails with
\* CannotHandleAssertion or a value error (also when nothing is registered),
\* login_process raises CannotHandleAssertion, produces no context, and the
\* failure is answered with a 400-class status.
C3_Exhaustion ==
    ( /\ Resolving
      /\ \A m \in Positions : RejectsNonFatally(Registered[m], Captured) )
    => /\ result.outcome = "raise"
       /\ result.exc = "CannotHandleAssertion"
       /\ result.context = NoContext
       /\ result.status \in 400..499

C3_Witness ==
    /\ Resolving
    /\ Len(Registered) >= 2
    /\ \A m \in Positions : RejectsNonFatally(Registered[m], Captured)
    /\ result.outcome = "raise"
    /\ result.exc = "CannotHandleAssertion"
    /\ result.status = 400

\* C4: fatal errors are not downgraded.  When the handlers before position p
\* reject non-fatally and handler p's trial raises anything other than
\* CannotHandleAssertion or a value error, login_process raises that very
\* exception, returns no context, and touches no handler after p.
C4_FatalPropagates ==
    Resolving =>
      \A p \in Positions :
        ( /\ FailsFatally(Registered[p], Captured)
          /\ \A m \in 1..(p - 1) : RejectsNonFatally(Registered[m], Captured) )
        => /\ result.outcome = "raise"
           /\ result.exc = TrialError(Registered[p], Captured)
           /\ result.context = NoContext
           /\ \A n \in 1..Len(result.calls) : result.calls[n].pos <= p

C4_Witness ==
    /\ Resolving
    /\ \E p, q \in Positions :
         /\ p < q
         /\ FailsFatally(Registered[p], Captured)
         /\ \A m \in 1..(p - 1) : RejectsNonFatally(Registered[m], Captured)
         /\ Accepts(Registered[q], Captured)
         /\ result.outcome = "raise"
         /\ result.exc = "NotImplementedError"

\* C5: login_begin with a missing or empty SAMLRequest parameter returns
\* the "SAMLRequest is missing" error, leaves the session exactly as it was
\* (nothing written, earlier values kept) and calls no handler.
C5_BeginWithoutRequest ==
    [][ \A params \in {p \in ParamsSet : ~Truthy(Get(p, "SAMLRequest", None))} :
          LoginBegin(params)
          => /\ session' = session
             /\ result'.outcome = "string"
             /\ result'.body = "SAMLRequest is missing"
             /\ result'.calls = <<>> ]_vars

C5_Witness ==
    /\ result.view = "login_begin"
    /\ result.outcome = "string"
    /\ result.body = "SAMLRequest is missing"
    /\ "SAMLRequest" \in DOMAIN session
    /\ "RelayState" \notin DOMAIN session

\* C6: for an authenticated user, login_process on a session lacking
\* SAMLRequest or RelayState returns an error message, without constructing
\* or trying any handler and without raising CannotHandleAssertion.
C6_MissingSessionState ==
    ( /\ ProcessRan
      /\ is_user_logged_in(session)
      /\ ~({"SAMLRequest", "RelayState"} \subseteq DOMAIN session) )
    => /\ result.outcome = "string"
       /\ result.body = (IF "SAMLRequest" \notin DOMAIN session
                         THEN "SAMLRequest is misssing"
                         ELSE "RelayState is missing")
       /\ result.exc = None
       /\ result.context = NoContext
       /\ result.calls = <<>>

C6_Witness ==
    /\ ProcessRan
    /\ is_user_logged_in(session)
    /\ "SAMLRequest" \in DOMAIN session
    /\ "RelayState" \notin DOMAIN session
    /\ result.body = "RelayState is missing"
    /\ \E m \in Positions : Accepts(Registered[m], Captured)

\* C7: authentication gate.  When the user is not logged in, login_process
\* ends in the abort of login_required whatever the session holds, with no
\* handler constructed or called and no context; a context is only ever
\* returned for a logged-in user.
C7_AuthenticationGate ==
    ProcessRan =>
      /\ ~is_user_logged_in(session) =>
            /\ result.outcome = "raise"
            /\ result.exc = "HTTPFound"
            /\ result.context = NoContext
            /\ result.calls = <<>>
      /\ result.outcome = "context" => is_user_logged_in(session)

C7_Witness ==
    /\ ProcessRan
    /\ ~is_user_logged_in(session)
    /\ "user" \in DOMAIN session
    /\ "SAMLRequest" \notin DOMAIN session
    /\ result.outcome = "raise"
    /\ result.exc = "HTTPFound"

\* whether the IdP configuration holds a value (not None) under `key`
Configured(key) ==
    key \in DOMAIN settings.SAML2_IDP /\ settings.SAML2_IDP[key] # None

\* C8: should_sign_responses() is true exactly when both the certificate
\* and the private key are configured, in all four presence combinations.
C8_ShouldSign ==
    ret.method = "should_sign_responses" =>
      (ret.flag <=> (Configured("certificate") /\ Configured("private_key")))

C8_Witness ==
    /\ ret.method = "should_sign_responses"
    /\ Configured("certificate")
    /\ ~Configured("private_key")
    /\ ret.flag = FALSE

\* C9 as stated: get_idp_signer() returns a Signer exactly when
\* should_sign_responses() is true.
C9_SignerIffSigning ==
    ret.method = "get_idp_signer" =>
      (ret.signer # NoSigner <=>
         (Configured("certificate") /\ Configured("private_key")))

\* C9: get_idp_signer() returns a Signer, bound to the configured private
\* key, exactly when a private key is configured, whether or not there is a
\* certificate: None without a private key, a Signer whenever responses are
\* to be signed.
C9_SignerIffPrivateKey ==
    ret.method = "get_idp_signer" =>
      /\ ret.signer # NoSigner <=> Configured("private_key")
      /\ Configured("private_key") =>
            ret.signer.key = settings.SAML2_IDP["private_key"]
      /\ (Configured("certificate") /\ Configured("private_key")) =>
            ret.signer # NoSigner

C9_Witness ==
    /\ ret.method = "get_idp_signer"
    /\ ~Configured("certificate")
    /\ Configured("private_key")
    /\ ret.signer.key = "OTHER_KEY"

\* C10: get_user_nameid returns the user's email for the email-address
\* format; for any other format it fails with an error that is neither a
\* CannotHandleAssertion nor a value error.
C10_UserNameId ==
    ret.method = "get_user_nameid" =>
      IF ret.attribute = EmailAddressUrn
      THEN /\ ret.exc = None
           /\ \E u \in UserObjects :
                u.username = ret.user /\ ret.value = u.email
      ELSE /\ ret.exc = "NotImplementedError"
           /\ ret.value = None
           /\ ~IsInstance(ret.exc, "CannotHandleAssertion")
           /\ ~IsInstance(ret.exc, "ValueError")

C10_Witness ==
    /\ ret.method = "get_user_nameid"
    /\ ret.attribute = "urn:oasis:names:tc:SAML:1.1:nameid-format:emailAddress"
    /\ ret.exc = "NotImplementedError"

(***************************************************************************)
(* Logout and metadata.                                                     *)
(***************************************************************************)
\* some registered handler takes url for one of its redirect targets
SomeHandlerAccepts(url) ==
    \E m \in Positions : url = Registered[m].OPTIONS.acs_url

\* a supplied value the logout view may redirect to
Acceptable(url) == url # "" /\ SomeHandlerAccepts(url)

RedirectUrls == {"", "sp.SPA", "sp.MidReject", "evil.example"}

\* C11: logout fallback.  For a logged-in user, a logout request without
\* a redirect target, or whose targets are empty or rejected by
\* is_valid_redirect, ends normally in the context of the logged-out page.
C11_LogoutFallback ==
    [][ \A params \in LogoutParamsSet :
          ( /\ Logout(params)
            /\ is_user_logged_in(session)
            /\ \A a \in DOMAIN params : ~Acceptable(params[a]) )
          => /\ result'.outcome = "context"
             /\ result'.exc = None ]_vars

\* C12: logout redirect safety.  The logout view redirects to u only if u
\* was supplied as RelayState or redirect_to, is not empty, and some
\* registered handler accepts it; RelayState is examined first, so a
\* redirect goes to the redirect_to value only when the RelayState value is
\* not acceptable.  Whenever IdentityProvider.is_valid_redirect returns, it
\* returns true exactly when some registered handler accepts the URL.
C12_LogoutRedirectSafety ==
    /\ [][ \A params \in LogoutParamsSet :
             ( Logout(params) /\ result'.outcome = "redirect" )
             => /\ \E a \in DOMAIN params : params[a] = result'.body
                /\ result'.body # ""
                /\ SomeHandlerAccepts(result'.body)
                /\ ( "RelayState" \in DOMAIN params
                     /\ Acceptable(params["RelayState"]) )
                   => result'.body = params["RelayState"] ]_vars
    /\ [](\A u \in RedirectUrls :
            is_valid_redirect(settings, u).exc = None
            => (is_valid_redirect(settings, u).value <=> SomeHandlerAccepts(u)))

C12_Witness ==
    /\ result.view = "logout"
    /\ result.outcome = "redirect"
    /\ result.body = "sp.MidReject"
    /\ \E n \in 1..Len(result.calls) :
         /\ result.calls[n].method = "is_valid_redirect"
         /\ result.calls[n].raw = "evil.example"
    /\ "user" \notin DOMAIN session

\* C13: the metadata view needs no logged-in user, and its context always
\* holds the entity id (the metadata URL), the SSO URL and the SLO URL; with
\* no certificate configured the certificate entry is empty.
C13_Metadata ==
    result.view = "metadata" =>
      /\ result.outcome = "context"
      /\ result.exc = None
      /\ result.context.entity_id = "/saml/metadata.xml"
      /\ result.context.sso_url = "/saml/login/"
      /\ result.context.slo_url = "/saml/logout/"
      /\ ~Configured("certificate") => result.context.certificate = ""
      /\ Configured("certificate") => result.context.certificate # ""

C13_Witness ==
    /\ result.view = "metadata"
    /\ ~is_user_logged_in(session)
    /\ ~Configured("certificate")
    /\ result.outcome = "context"
    /\ result.context.certificate = ""
    /\ result.context.entity_id = "/saml/metadata.xml"

(***************************************************************************)
(* The login attempt as a whole.                                            *)
(***************************************************************************)
\* C14: login_begin with a non-empty SAMLRequest stores SAMLRequest and
\* RelayState ('' when the parameter is absent) in the session, leaves the
\* other keys alone, answers with a redirect to the process step and calls
\* no handler; from an empty session on, the session holds SAMLRequest
\* exactly when it holds RelayState.
C14_BeginCaptures ==
    /\ [][ \A params \in {p \in ParamsSet : Truthy(Get(p, "SAMLRequest", None))} :
             LoginBegin(params)
             => /\ DOMAIN session' = DOMAIN session \cup {"SAMLRequest", "RelayState"}
                /\ session'["SAMLRequest"] = params["SAMLRequest"]
                /\ session'["RelayState"] = Get(params, "RelayState", "")
                /\ \A k \in DOMAIN session \ {"SAMLRequest", "RelayState"} :
                     session'[k] = session[k]
                /\ result'.outcome = "redirect"
                /\ result'.body = "/saml/login/process/"
                /\ result'.calls = <<>> ]_vars
    /\ []("SAMLRequest" \in DOMAIN session <=> "RelayState" \in DOMAIN session)

C14_Witness ==
    /\ result.view = "login_begin"
    /\ result.outcome = "redirect"
    /\ "user" \in DOMAIN session
    /\ "SAMLRequest" \in DOMAIN session /\ session["SAMLRequest"] = "reqB"
    /\ "RelayState" \in DOMAIN session /\ session["RelayState"] = ""

\* C15: from an empty session on, login_process gets to the handlers, to a
\* context or to the final CannotHandleAssertion only after a login_begin
\* that carried a SAMLRequest, and what the handlers are handed is the pair
\* of the latest such login_begin.
C15_AttemptOrdering ==
    ( /\ ProcessRan
      /\ \/ result.outcome = "context"
         \/ result.exc = "CannotHandleAssertion"
         \/ result.calls # <<>> )
    => /\ begun # NoPair
       /\ \A n \in 1..Len(result.calls) :
            /\ result.calls[n].method = "parse_authn_request"
                 => result.calls[n].raw = begun.SAMLRequest
            /\ result.calls[n].method = "get_response_context"
                 => result.calls[n].relay = begun.RelayState
       /\ result.outcome = "context"
            => /\ result.context.request.raw = begun.SAMLRequest
               /\ result.context.relay_state = begun.RelayState

C15_Witness ==
    /\ ProcessRan
    /\ result.outcome = "context"
    /\ begun = [SAMLRequest |-> "reqA", RelayState |-> "rs1"]
    /\ result.context.relay_state = "rs1"
    /\ result.context.handler = 2

\* position of the n-th recorded call
PosAt(n) == result.calls[n].pos

MethodAt(n) == result.calls[n].method

\* C16: sequential short-circuit.  Handlers are built and tried one at a
\* time in configuration order, each at most once; handler k+1 is built
\* only after handler k's trial has failed non-fatally, and nothing is
\* built or called after a handler whose trial succeeds.
C16_SequentialShortCircuit ==
    Resolving =>
      /\ \A n \in 1..Len(result.calls) :
           /\ MethodAt(n) = "__init__"
                <=> (n = 1 \/ PosAt(n - 1) < PosAt(n))
           /\ n = 1 => PosAt(n) = 1
           /\ n > 1 => PosAt(n) \in {PosAt(n - 1), PosAt(n - 1) + 1}
           /\ PosAt(n) > 1
                => RejectsNonFatally(Registered[PosAt(n) - 1], Captured)
      /\ \A k \in Positions :
           /\ \A method \in {"__init__", "parse_authn_request",
                             "make_response", "get_response_context"} :
                CallCount(k, method) <= 1
           /\ Accepts(Registered[k], Captured)
                => \A n \in 1..Len(result.calls) : PosAt(n) <= k
      /\ result.outcome = "context"
           => \A n \in 1..Len(result.calls) : PosAt(n) <= result.context.handler

C16_Witness ==
    /\ Resolving
    /\ Len(Registered) = 3
    /\ RejectsNonFatally(Registered[1], Captured)
    /\ Accepts(Registered[2], Captured)
    /\ Accepts(Registered[3], Captured)
    /\ ContextOf(2)
    /\ CallCount(1, "__init__") = 1
    /\ CallCount(3, "__init__") = 0

\* the outcome of one step of a handler's trial, read off its class
StepOutcome(reg, step, raw) ==
    LET b == Behaviour(reg.CLASS)
    IN CASE step = "parse_authn_request" ->
              IF b.entity \notin {"*", raw} THEN "CannotHandleAssertion"
              ELSE b.parse
         [] step = "make_response" -> b.make
         [] step = "get_response_context" -> b.ctx

\* C17: single trial unit.  In a handler's trial parse_authn_request,
\* make_response and get_response_context run in this order, each only
\* after the one before it succeeded; a CannotHandleAssertion or value error
\* at any of the three steps sends the loop on to the next handler; a
\* context is returned only when all three steps of one handler succeeded.
C17_SingleTrialUnit ==
    Resolving =>
      /\ \A n \in 1..Len(result.calls) :
           /\ MethodAt(n) = "parse_authn_request"
                => n > 1 /\ PosAt(n - 1) = PosAt(n)
                   /\ MethodAt(n - 1) = "__init__"
           /\ MethodAt(n) = "make_response"
                => n > 1 /\ PosAt(n - 1) = PosAt(n)
                   /\ MethodAt(n - 1) = "parse_authn_request"
                   /\ StepOutcome(Registered[PosAt(n)], "parse_authn_request",
                                  Captured) = "ok"
           /\ MethodAt(n) = "get_response_context"
                => n > 1 /\ PosAt(n - 1) = PosAt(n)
                   /\ MethodAt(n - 1) = "make_response"
                   /\ StepOutcome(Registered[PosAt(n)], "make_response",
                                  Captured) = "ok"
           /\ ( MethodAt(n) # "__init__"
                /\ StepOutcome(Registered[PosAt(n)], MethodAt(n), Captured)
                     \in NonFatalKinds )
                => /\ result.outcome = "context" => result.context.handler > PosAt(n)
                   /\ IF PosAt(n) < Len(Registered)
                      THEN n < Len(result.calls) /\ PosAt(n + 1) = PosAt(n) + 1
                      ELSE /\ n = Len(result.calls)
                           /\ result.exc = "CannotHandleAssertion"
      /\ result.outcome = "context"
           => /\ Accepts(Registered[result.context.handler], Captured)
              /\ \A method \in {"parse_authn_request", "make_response",
                                "get_response_context"} :
                   CallCount(result.context.handler, method) = 1

C17_Witness ==
    /\ Resolving
    /\ Len(Registered) = 3
    /\ StepOutcome(Registered[1], "make_response", Captured) = "binascii.Error"
    /\ StepOutcome(Registered[2], "get_response_context", Captured) = "ValueError"
    /\ CallCount(1, "make_response") = 1
    /\ CallCount(1, "get_response_context") = 0
    /\ CallCount(2, "get_response_context") = 1
    /\ ContextOf(3)

\* C18: trial independence.  Every trial of one login_process call is handed
\* the SAMLRequest and the RelayState of the session; the request passed to
\* a handler's make_response and the request and response passed to its
\* get_response_context are the ones that same handler has just produced.
C18_TrialIndependence ==
    Resolving =>
      /\ \A n \in 1..Len(result.calls) :
           /\ MethodAt(n) = "parse_authn_request"
                => result.calls[n].raw = session["SAMLRequest"]
           /\ MethodAt(n) = "make_response"
                => /\ result.calls[n].reqBy = PosAt(n)
                   /\ result.calls[n].raw = session["SAMLRequest"]
           /\ MethodAt(n) = "get_response_context"
                => /\ result.calls[n].reqBy = PosAt(n)
                   /\ result.calls[n].respBy = PosAt(n)
                   /\ result.calls[n].raw = session["SAMLRequest"]
                   /\ result.calls[n].relay = session["RelayState"]
      /\ result.outcome = "context"
           => /\ result.context.request.by = result.context.handler
              /\ result.context.response.by = result.context.handler
              /\ result.context.response.for = result.context.request
              /\ result.context.request.raw = session["SAMLRequest"]
              /\ result.context.relay_state = session["RelayState"]

C18_Witness ==
    /\ Resolving
    /\ Len(Registered) = 3
    /\ CallCount(1, "make_response") = 1
    /\ CallCount(2, "get_response_context") = 1
    /\ ContextOf(3)
    /\ result.context.request.by = 3
    /\ result.context.response.by = 3
    /\ session["RelayState"] = "rs1"

\* C19: login_process leaves the session as it found it on every outcome,
\* so the same call on the resulting session gives the same response again.
C19_ProcessKeepsSession ==
    [][ LoginProcess
        => /\ session' = session
           /\ login_process(settings', session').response = result' ]_vars

C19_Witness ==
    /\ ProcessRan
    /\ result.outcome = "context"
    /\ "SAMLRequest" \in DOMAIN session
    /\ "RelayState" \in DOMAIN session
    /\ login_process(settings, session).response = result

\* C20: an error raised while get_sp_handlers builds the handler at position
\* p (the handlers before p having failed non-fatally) is not caught, even
\* when it is a ValueError: login_process raises it, and neither that
\* handler nor any later one is tried.
C20_ConstructionErrorPropagates ==
    Resolving =>
      \A p \in Positions :
        ( /\ ~Constructs(Registered[p])
          /\ \A m \in 1..(p - 1) : RejectsNonFatally(Registered[m], Captured) )
        => /\ result.outcome = "raise"
           /\ result.exc = Behaviour(Registered[p].CLASS).ctor
           /\ result.context = NoContext
           /\ CallCount(p, "__init__") = 1
           /\ CallCount(p, "parse_authn_request") = 0
           /\ \A n \in 1..Len(result.calls) : PosAt(n) <= p

C20_Witness ==
    /\ Resolving
    /\ \E p, q \in Positions :
         /\ 1 < p /\ p < q
         /\ ~Constructs(Registered[p])
         /\ \A m \in 1..(p - 1) : RejectsNonFatally(Registered[m], Captured)
         /\ Accepts(Registered[q], Captured)
         /\ result.outcome = "raise"
         /\ result.exc = "ValueError"
         /\ result.status = 500

====
